---------------------------- MODULE Spec2Model ----------------------------
(***************************************************************************)
(* Student-Performance-Analytics: the deterministic risk-scoring core      *)
(* (data_processor.py) and the per-student annotation loop (gemini_ai.py). *)
(*                                                                         *)
(* A DataFrame is a sequence of rows, a row a record of its columns.       *)
(* Python floats are modelled by exact rationals <<n, d>> (d > 0, lowest   *)
(* terms), so that divisions such as absences / max_absences and the       *)
(* weighted sum are computed as written in the source, without rounding.   *)
(* NaN, the missing value of a float column, is <<0, 0>>: it propagates     *)
(* through the arithmetic and every comparison with it is false.           *)
(***************************************************************************)
EXTENDS Integers, Sequences, FiniteSets, TLC

VARIABLES
    pc,          \* position of the running program
    df_in,       \* the DataFrame handed to process_student_data
    df,          \* the DataFrame process_student_data returned
    df_index,    \* the row labels (pandas index) of df
    alt_in,      \* df_in with G3 of one record lowered (a second run's input)
    alt_df,      \* process_student_data's result on alt_in
    alt_row,     \* the position of the record whose G3 was lowered
    score_arg,   \* the argument of a direct call of assign_risk_level
    level_ret,   \* what that call returned
    ai_i,        \* process_batch_with_ai: rows iterated so far
    ai_results,  \* process_batch_with_ai: the list ai_results
    ai_calls,    \* per iterated row: the collaborator's outcome, what
                 \* analyze_student_with_ai returned for it, and whether
                 \* the call issued a request
    ai_log,      \* external requests and sleeps, in the order they happened
    result_df,   \* the DataFrame process_batch_with_ai returned
    df_caller,   \* the caller's own DataFrame after process_student_data
    df_again,    \* what a second call on the caller's DataFrame returned
    risk_thresholds, \* the table RISK_THRESHOLDS of the deployed config.py
    risk_weights,    \* the table RISK_WEIGHTS of the deployed config.py
    wf_in,       \* run_complete_workflow: the table the dataset file holds
    wf_args,     \* its arguments use_ai and export_sheets (and sample_size
                 \* once the Streamlit handler ran)
    wf_steps,    \* the steps it executed, in order
    wf_failed,   \* the steps whose collaborator raised
    wf_df,       \* its local df when it returned
    wf_sinks,    \* what it wrote to each sink
    summary,     \* the summary it returned
    workflow_data,   \* streamlit_app: st.session_state.workflow_data
    st_error         \* streamlit_app: the exception shown by st.error

wf_vars ==
    <<wf_in, wf_args, wf_steps, wf_failed, wf_df, wf_sinks, summary,
      workflow_data, st_error>>

vars == <<pc, df_in, df, df_index, alt_in, alt_df, alt_row, score_arg, level_ret,
          ai_i, ai_results, ai_calls, ai_log, result_df, df_caller, df_again,
          risk_thresholds,
          risk_weights, wf_vars>>

(***************************************************************************)
(* Bounds of the model.                                                    *)
(***************************************************************************)
MaxBatch == 2       \* records in a generated batch
MaxAbsences == 1    \* generated absences range over 0..MaxAbsences
MaxGrade == 1       \* generated G3 ranges over 0..MaxGrade
MonoBatch == 3      \* records in a batch of the monotonicity runs
MonoGrade == 3      \* G3 ranges over 0..MonoGrade in those runs
AbsBatch == 3       \* records in a batch where only the absences vary
AbsRange == 3       \* absences range over 0..AbsRange in those batches
MaxAIBatch == 2     \* records in a batch handed to process_batch_with_ai
ScoreDen == 2       \* direct calls of assign_risk_level: scores k/ScoreDen

(***************************************************************************)
(* Exact rational arithmetic.                                              *)
(***************************************************************************)
Abs(n) == IF n < 0 THEN -n ELSE n

RECURSIVE GCD(_, _)
GCD(a, b) == IF b = 0 THEN a ELSE GCD(b, a % b)

NaN == <<0, 0>>

IsNaN(x) == x[2] = 0

Rat(n, d) ==
    IF d = 0 THEN NaN
    ELSE LET s == IF d < 0 THEN -1 ELSE 1
             g == GCD(Abs(n), Abs(d))
         IN  <<(s * n) \div g, (s * d) \div g>>

Num(n) == <<n, 1>>

RAdd(x, y) == Rat(x[1] * y[2] + y[1] * x[2], x[2] * y[2])
RSub(x, y) == Rat(x[1] * y[2] - y[1] * x[2], x[2] * y[2])
RMul(x, y) == Rat(x[1] * y[1], x[2] * y[2])
RDiv(x, y) == Rat(x[1] * y[2], x[2] * y[1])
RLt(x, y) == ~IsNaN(x) /\ ~IsNaN(y) /\ x[1] * y[2] < y[1] * x[2]
RLe(x, y) == ~IsNaN(x) /\ ~IsNaN(y) /\ x[1] * y[2] <= y[1] * x[2]
REq(x, y) == ~IsNaN(x) /\ ~IsNaN(y) /\ x = y

\* Python's builtin min(a, b) and max(a, b): the first argument is kept
\* unless the second compares strictly smaller (greater).
PyMin(a, b) == IF RLt(b, a) THEN b ELSE a
PyMax(a, b) == IF RLt(a, b) THEN b ELSE a

(***************************************************************************)
(* Series reductions and row-wise operations on a DataFrame.               *)
(***************************************************************************)
Column(d, col) == [i \in 1..Len(d) |-> d[i][col]]

\* Series.max() and Series.min() skip the missing values (skipna), and are
\* NaN when every value is missing

RECURSIVE SeriesMaxFrom(_, _, _)
SeriesMaxFrom(s, i, acc) ==
    IF i > Len(s) THEN acc
    ELSE SeriesMaxFrom(s, i + 1, IF IsNaN(acc) \/ RLt(acc, s[i]) THEN s[i] ELSE acc)

RECURSIVE SeriesMinFrom(_, _, _)
SeriesMinFrom(s, i, acc) ==
    IF i > Len(s) THEN acc
    ELSE SeriesMinFrom(s, i + 1, IF IsNaN(acc) \/ RLt(s[i], acc) THEN s[i] ELSE acc)

SeriesMax(s) == SeriesMaxFrom(s, 2, s[1])
SeriesMin(s) == SeriesMinFrom(s, 2, s[1])

\* df[col] = value computed per row: a new row with the column added or replaced
WithColumn(row, col, v) == (col :> v) @@ row

(***************************************************************************)
(* config.py                                                               *)
(***************************************************************************)
\* mutant: the trend weight mistyped, so that the weights sum to 1.1
RISK_WEIGHTS_SumAboveOne ==
    [attendance |-> Rat(35, 100), grade |-> Rat(35, 100),
     trend |-> Rat(30, 100), missing_assignments |-> Rat(10, 100)]

RISK_WEIGHTS ==
    [attendance |-> Rat(35, 100), grade |-> Rat(35, 100),
     trend |-> Rat(20, 100), missing_assignments |-> Rat(10, 100)]

RISK_THRESHOLDS == [low |-> 39, medium |-> 69, high |-> 100]

\* the weights as they are, and mistyped so that they sum to 1.1
WeightConfigs ==
    { RISK_WEIGHTS,
      [attendance |-> Rat(40, 100), grade |-> Rat(40, 100),
       trend |-> Rat(20, 100), missing_assignments |-> Rat(10, 100)] }

\* the table as it is, and as a deployment with stricter bands would set it
ThresholdConfigs ==
    { RISK_THRESHOLDS, [low |-> 29, medium |-> 59, high |-> 100] }

(***************************************************************************)
(* data_processor.py                                                       *)
(***************************************************************************)
\* mutant: missing_assignments looks at failures only, studytime is ignored
compute_derived_features_FailuresOnly(d) ==
    LET max_absences == SeriesMax(Column(d, "absences"))
        attendance_pct(r) ==
            IF RLt(Num(0), max_absences)
            THEN RMul(RSub(Num(1), RDiv(r.absences, max_absences)), Num(100))
            ELSE Num(100)
        missing(r) == IF RLt(Num(0), r.failures) THEN 1 ELSE 0
    IN  [i \in 1..Len(d) |->
            [attendance_pct |-> attendance_pct(d[i]),
             final_grade |-> d[i].G3,
             trend_recent |-> RSub(d[i].G3, d[i].G2),
             missing_assignments |-> missing(d[i])] @@ d[i]]

\* mutant: the guard max_absences > 0 is dropped, the division is always made
compute_derived_features_Unguarded(d) ==
    LET max_absences == SeriesMax(Column(d, "absences"))
        attendance_pct(r) ==
            RMul(RSub(Num(1), RDiv(r.absences, max_absences)), Num(100))
        missing(r) ==
            IF RLt(Num(0), r.failures) \/ RLe(r.studytime, Num(1)) THEN 1 ELSE 0
    IN  [i \in 1..Len(d) |->
            [attendance_pct |-> attendance_pct(d[i]),
             final_grade |-> d[i].G3,
             trend_recent |-> RSub(d[i].G3, d[i].G2),
             missing_assignments |-> missing(d[i])] @@ d[i]]

compute_derived_features(d) ==
    LET max_absences == SeriesMax(Column(d, "absences"))
        attendance_pct(r) ==
            IF RLt(Num(0), max_absences)
            THEN RMul(RSub(Num(1), RDiv(r.absences, max_absences)), Num(100))
            ELSE Num(100)
        missing(r) ==
            IF RLt(Num(0), r.failures) \/ RLe(r.studytime, Num(1)) THEN 1 ELSE 0
    IN  [i \in 1..Len(d) |->
            [attendance_pct |-> attendance_pct(d[i]),
             final_grade |-> d[i].G3,
             trend_recent |-> RSub(d[i].G3, d[i].G2),
             missing_assignments |-> missing(d[i])] @@ d[i]]

\* mutant: the zero-variance branch returns the top of the scale
normalize_ZeroRangeMax(value, min_val, max_val, inverse) ==
    IF REq(max_val, min_val) THEN Num(100)
    ELSE LET linear == RMul(RDiv(RSub(value, min_val), RSub(max_val, min_val)),
                            Num(100))
             normalized == IF inverse THEN RSub(Num(100), linear) ELSE linear
         IN  PyMax(Num(0), PyMin(Num(100), normalized))

\* mutant: the zero-variance branch returns 0.0 instead of the neutral 50.0
normalize_ZeroNeutral(value, min_val, max_val, inverse) ==
    IF REq(max_val, min_val) THEN Num(0)
    ELSE LET linear == RMul(RDiv(RSub(value, min_val), RSub(max_val, min_val)),
                            Num(100))
             normalized == IF inverse THEN RSub(Num(100), linear) ELSE linear
         IN  PyMax(Num(0), PyMin(Num(100), normalized))

\* mutant: the inverse flag is ignored (higher value = higher risk)
normalize_NotInverted(value, min_val, max_val, inverse) ==
    IF REq(max_val, min_val) THEN Num(50)
    ELSE LET linear == RMul(RDiv(RSub(value, min_val), RSub(max_val, min_val)),
                            Num(100))
         IN  PyMax(Num(0), PyMin(Num(100), linear))

normalize_risk_component(value, min_val, max_val, inverse) ==
    IF REq(max_val, min_val) THEN Num(50)
    ELSE LET linear == RMul(RDiv(RSub(value, min_val), RSub(max_val, min_val)),
                            Num(100))
             normalized == IF inverse THEN RSub(Num(100), linear) ELSE linear
         IN  PyMax(Num(0), PyMin(Num(100), normalized))

\* mutant: attendance_pct is normalized without the inverse flag
compute_risk_components_AttendanceDirect(d) ==
    LET max_attendance == SeriesMax(Column(d, "attendance_pct"))
        min_attendance == SeriesMin(Column(d, "attendance_pct"))
        max_grade == SeriesMax(Column(d, "final_grade"))
        min_grade == SeriesMin(Column(d, "final_grade"))
        max_trend == SeriesMax(Column(d, "trend_recent"))
        min_trend == SeriesMin(Column(d, "trend_recent"))
    IN  [i \in 1..Len(d) |->
            [attendance_risk |->
                normalize_risk_component(d[i].attendance_pct,
                                         min_attendance, max_attendance, FALSE),
             grade_risk |->
                normalize_risk_component(d[i].final_grade,
                                         min_grade, max_grade, TRUE),
             trend_risk |->
                normalize_risk_component(d[i].trend_recent,
                                         min_trend, max_trend, TRUE),
             missing_assignments_risk |->
                Num(d[i].missing_assignments * 100)] @@ d[i]]

\* mutant: a copy-paste slip, grade_risk normalized with the attendance range
compute_risk_components_CopyPaste(d) ==
    LET max_attendance == SeriesMax(Column(d, "attendance_pct"))
        min_attendance == SeriesMin(Column(d, "attendance_pct"))
        max_trend == SeriesMax(Column(d, "trend_recent"))
        min_trend == SeriesMin(Column(d, "trend_recent"))
    IN  [i \in 1..Len(d) |->
            [attendance_risk |->
                normalize_risk_component(d[i].attendance_pct,
                                         min_attendance, max_attendance, TRUE),
             grade_risk |->
                normalize_risk_component(d[i].final_grade,
                                         min_attendance, max_attendance, TRUE),
             trend_risk |->
                normalize_risk_component(d[i].trend_recent,
                                         min_trend, max_trend, TRUE),
             missing_assignments_risk |->
                Num(d[i].missing_assignments * 100)] @@ d[i]]

\* mutant: a copy-paste slip, missing_assignments_risk taken from the
\* normalized final_grade
compute_risk_components_MissingFromGrade(d) ==
    LET max_attendance == SeriesMax(Column(d, "attendance_pct"))
        min_attendance == SeriesMin(Column(d, "attendance_pct"))
        max_grade == SeriesMax(Column(d, "final_grade"))
        min_grade == SeriesMin(Column(d, "final_grade"))
        max_trend == SeriesMax(Column(d, "trend_recent"))
        min_trend == SeriesMin(Column(d, "trend_recent"))
    IN  [i \in 1..Len(d) |->
            [attendance_risk |->
                normalize_risk_component(d[i].attendance_pct,
                                         min_attendance, max_attendance, TRUE),
             grade_risk |->
                normalize_risk_component(d[i].final_grade,
                                         min_grade, max_grade, TRUE),
             trend_risk |->
                normalize_risk_component(d[i].trend_recent,
                                         min_trend, max_trend, TRUE),
             missing_assignments_risk |->
                normalize_risk_component(d[i].final_grade,
                                         min_grade, max_grade, TRUE)] @@ d[i]]

compute_risk_components(d) ==
    LET max_attendance == SeriesMax(Column(d, "attendance_pct"))
        min_attendance == SeriesMin(Column(d, "attendance_pct"))
        max_grade == SeriesMax(Column(d, "final_grade"))
        min_grade == SeriesMin(Column(d, "final_grade"))
        max_trend == SeriesMax(Column(d, "trend_recent"))
        min_trend == SeriesMin(Column(d, "trend_recent"))
    IN  [i \in 1..Len(d) |->
            [attendance_risk |->
                normalize_risk_component(d[i].attendance_pct,
                                         min_attendance, max_attendance, TRUE),
             grade_risk |->
                normalize_risk_component(d[i].final_grade,
                                         min_grade, max_grade, TRUE),
             trend_risk |->
                normalize_risk_component(d[i].trend_recent,
                                         min_trend, max_trend, TRUE),
             missing_assignments_risk |->
                Num(d[i].missing_assignments * 100)] @@ d[i]]

\* lines 105-110, with the table that config.py holds
WeightedScore(d, weights) ==
    [i \in 1..Len(d) |->
        WithColumn(d[i], "risk_score",
            RAdd(RAdd(RAdd(RMul(d[i].attendance_risk, weights.attendance),
                           RMul(d[i].grade_risk, weights.grade)),
                      RMul(d[i].trend_risk, weights.trend)),
                 RMul(d[i].missing_assignments_risk,
                      weights.missing_assignments)))]

compute_weighted_risk_score(d) == WeightedScore(d, RISK_WEIGHTS)

\* mutant: strict comparisons, so that 39 and 69 fall into the next band
assign_risk_level_Strict(risk_score) ==
    IF RLt(risk_score, Num(39)) THEN "Low"
    ELSE IF RLt(risk_score, Num(69)) THEN "Medium"
    ELSE "High"

\* mutant: the bands closed at 40 and 70 instead of 39 and 69
assign_risk_level_UpperBands(risk_score) ==
    IF RLe(risk_score, Num(40)) THEN "Low"
    ELSE IF RLe(risk_score, Num(70)) THEN "Medium"
    ELSE "High"

assign_risk_level(risk_score) ==
    IF RLe(risk_score, Num(39)) THEN "Low"
    ELSE IF RLe(risk_score, Num(69)) THEN "Medium"
    ELSE "High"

AssignLevels(d) ==
    [i \in 1..Len(d) |->
        WithColumn(d[i], "risk_level", assign_risk_level(d[i].risk_score))]

process_student_data(d) ==
    AssignLevels(
        compute_weighted_risk_score(
            compute_risk_components(
                compute_derived_features(d))))

\* process_student_data in a deployment whose config.py holds weights:
\* the import at line 8 takes the table as it is
ProcessWithConfig(d, weights) ==
    AssignLevels(
        WeightedScore(compute_risk_components(compute_derived_features(d)),
                      weights))

\* mutant: the stages assign their columns to the frame they are given
CallerFrameAfter_NoCopy(d) == process_student_data(d)

\* the frame the caller passed, after the call: every stage starts with
\* df = df.copy() and assigns its columns to the copy
CallerFrameAfter(d) == d

(***************************************************************************)
(* Input batches.  No code reads G1; absences, failures and studytime are  *)
(* the non-negative counts and the positive ordinal the input contract     *)
(* declares.                                                               *)
(***************************************************************************)
RawRecord(a, g1, g2, g3, f, s) ==
    [absences |-> Num(a), G1 |-> Num(g1), G2 |-> Num(g2), G3 |-> Num(g3),
     failures |-> Num(f), studytime |-> Num(s)]

\* generated records: every combination of a few values per field
\* (records with failures > 0 come with the fixtures below)
Records ==
    { RawRecord(a, 0, g2, g3, 0, s) :
        a \in 0..MaxAbsences, g2 \in 0..1, g3 \in 0..MaxGrade, s \in 1..2 }

Batches == UNION { [1..n -> Records] : n \in 1..MaxBatch }

\* test_cases.py: create_test_student_data
TestStudentData ==
    << RawRecord(0, 15, 16, 17, 0, 4),
       RawRecord(5, 12, 13, 14, 0, 3),
       RawRecord(10, 10, 11, 10, 1, 2),
       RawRecord(15, 8, 9, 7, 2, 1),
       RawRecord(20, 5, 6, 4, 3, 1) >>

\* test_cases.py: the single-record batches of test cases 1 to 5
TestCase1 == << RawRecord(0, 15, 16, 17, 0, 4) >>
TestCase2 == << RawRecord(5, 12, 13, 14, 0, 2) >>
TestCase3 == << RawRecord(15, 8, 9, 7, 2, 1) >>
TestCase4 == << RawRecord(0, 20, 20, 20, 0, 4) >>
TestCase5 == << RawRecord(20, 5, 6, 4, 3, 1) >>

Fixtures ==
    { TestStudentData, TestCase1, TestCase2, TestCase3, TestCase4, TestCase5 }

\* batches of the monotonicity runs: only G3 varies
MonoRecords == { RawRecord(0, 0, 0, g3, 0, 2) : g3 \in 0..MonoGrade }
MonoBatches == UNION { [1..n -> MonoRecords] : n \in 1..MonoBatch }

\* batches where only the absences vary
AbsenceRecords == { RawRecord(a, 0, 0, 0, 0, 2) : a \in 0..AbsRange }
AbsenceBatches == UNION { [1..n -> AbsenceRecords] : n \in 1..AbsBatch }

\* scores handed directly to assign_risk_level: every k/ScoreDen in [0, 100]
Scores == { Rat(k, ScoreDen) : k \in 0..(100 * ScoreDen) }

None == <<>>

NoSinks == [csv |-> <<>>, sheets |-> <<>>, alert |-> <<>>, metadata |-> <<>>]

WfIdle ==
    /\ wf_in = None /\ wf_args = None /\ wf_steps = <<>> /\ wf_failed = {}
    /\ wf_df = None
    /\ wf_sinks = NoSinks /\ summary = None
    /\ workflow_data = None /\ st_error = "none"

\* no call of process_student_data yet
CoreIdle ==
    /\ df_caller = None /\ df_again = None

\* config.py as it is in the repository
Idle ==
    /\ WfIdle /\ CoreIdle
    /\ risk_thresholds = RISK_THRESHOLDS
    /\ risk_weights = RISK_WEIGHTS
    /\ df_index = <<>>
    /\ alt_in = None /\ alt_df = None /\ alt_row = 0
    /\ score_arg = None /\ level_ret = "none"
    /\ ai_i = 0 /\ ai_results = <<>> /\ ai_calls = <<>> /\ ai_log = <<>>
    /\ result_df = None

(***************************************************************************)
(* Entry points of data_processor.py.                                      *)
(***************************************************************************)
\* a caller holds a batch and is about to call process_student_data
InitBatch ==
    /\ pc = "start"
    /\ df_in \in Batches \cup Fixtures \cup AbsenceBatches
    /\ df = None
    /\ Idle

\* a caller holds a score and is about to call assign_risk_level
InitScore ==
    /\ pc = "score"
    /\ score_arg \in Scores
    /\ df_in = None /\ df = None /\ df_index = <<>>
    /\ alt_in = None /\ alt_df = None /\ alt_row = 0
    /\ level_ret = "none"
    /\ ai_i = 0 /\ ai_results = <<>> /\ ai_calls = <<>> /\ ai_log = <<>>
    /\ result_df = None
    /\ WfIdle /\ CoreIdle
    /\ risk_thresholds \in ThresholdConfigs
    /\ risk_weights = RISK_WEIGHTS

\* a caller holds a batch and the same batch with one record's G3 lowered
InitMono ==
    /\ pc = "mono"
    /\ df_in \in MonoBatches
    /\ alt_row \in 1..Len(df_in)
    /\ \E g \in 0..MonoGrade :
          /\ RLt(Num(g), df_in[alt_row].G3)
          /\ alt_in = [df_in EXCEPT ![alt_row].G3 = Num(g)]
    /\ df = None /\ alt_df = None /\ df_index = <<>>
    /\ score_arg = None /\ level_ret = "none"
    /\ ai_i = 0 /\ ai_results = <<>> /\ ai_calls = <<>> /\ ai_log = <<>>
    /\ result_df = None
    /\ WfIdle /\ CoreIdle /\ risk_thresholds = RISK_THRESHOLDS
    /\ risk_weights = RISK_WEIGHTS

\* a deployment has edited RISK_WEIGHTS; a caller holds a batch and is about
\* to import data_processor and call process_student_data
InitConfig ==
    /\ pc = "config"
    /\ df_in \in Fixtures
    /\ df = None
    /\ risk_weights \in WeightConfigs
    /\ risk_thresholds \in {RISK_THRESHOLDS}
    /\ WfIdle /\ CoreIdle
    /\ df_index = <<>>
    /\ alt_in = None /\ alt_df = None /\ alt_row = 0
    /\ score_arg = None /\ level_ret = "none"
    /\ ai_i = 0 /\ ai_results = <<>> /\ ai_calls = <<>> /\ ai_log = <<>>
    /\ result_df = None

Init == InitBatch \/ InitScore \/ InitMono \/ InitConfig

ProcessStudentData ==
    /\ pc = "start"
    /\ df' = process_student_data(df_in)
    /\ df_caller' = CallerFrameAfter(df_in)
    /\ pc' = "processed"
    /\ UNCHANGED <<df_in, df_index, alt_in, alt_df, alt_row, score_arg, level_ret,
                   ai_i, ai_results, ai_calls, ai_log, result_df,
                   df_again, risk_thresholds,
                   risk_weights, wf_vars>>

\* the caller calls process_student_data once more on the frame it holds
ProcessAgain ==
    /\ pc = "processed"
    /\ df_again' = process_student_data(df_caller)
    /\ df_caller' = CallerFrameAfter(df_caller)
    /\ pc' = "reprocessed"
    /\ UNCHANGED <<df_in, df, df_index, alt_in, alt_df, alt_row, score_arg,
                   level_ret, ai_i, ai_results, ai_calls, ai_log, result_df,
                   risk_thresholds,
                   risk_weights, wf_vars>>

AssignRiskLevel ==
    /\ pc = "score"
    /\ level_ret' = assign_risk_level(score_arg)
    /\ pc' = "levelled"
    /\ UNCHANGED <<df_in, df, df_index, alt_in, alt_df, alt_row, score_arg,
                   ai_i, ai_results, ai_calls, ai_log, result_df,
                   df_caller, df_again, risk_thresholds,
                   risk_weights, wf_vars>>

ProcessBoth ==
    /\ pc = "mono"
    /\ df' = process_student_data(df_in)
    /\ alt_df' = process_student_data(alt_in)
    /\ pc' = "compared"
    /\ UNCHANGED <<df_in, df_index, alt_in, alt_row, score_arg, level_ret,
                   ai_i, ai_results, ai_calls, ai_log, result_df,
                   df_caller, df_again, risk_thresholds,
                   risk_weights, wf_vars>>

\* config.py is loaded (no statement of it or of data_processor.py looks at
\* the weights) and the batch is scored
ScoreWithConfig ==
    /\ pc = "config"
    /\ df' = ProcessWithConfig(df_in, risk_weights)
    /\ pc' = "config_scored"
    /\ UNCHANGED <<df_in, df_index, alt_in, alt_df, alt_row, score_arg, level_ret,
                   ai_i, ai_results, ai_calls, ai_log, result_df,
                   df_caller, df_again, risk_thresholds, risk_weights,
                   wf_vars>>

Next ==
    \/ ScoreWithConfig
    \/ ProcessStudentData
    \/ ProcessAgain
    \/ AssignRiskLevel
    \/ ProcessBoth

Spec == Init /\ [][Next]_vars

(***************************************************************************)
(* gemini_ai.py.  A response text is a sequence of chunks; the chunks      *)
(* "```json" and "```" are the markdown fences, every other chunk is text  *)
(* free of fences.  A parsed JSON value is tagged with its Python type.    *)
(***************************************************************************)
\* (a string literal cannot hold a backquote: the fences are written with
\* apostrophes)
FenceJson == "'''json"
Fence == "'''"

DocFull ==
    "{\"risk_score\": 85, \"risk_level\": \"High\", \"key_risk_reasons\": [\"low attendance\", \"failing grade\", \"declining trend\"], \"interventions\": [{\"type\": \"teacher\", \"action\": \"tutoring\"}]}"
DocNoFields == "{\"summary\": \"student is doing fine\"}"
DocError == "{\"error\": \"missing field\"}"
DocList == "[]"
DocNumber == "42"
DocNull == "null"
Garbage == "I am unable to analyse this student."

PyDict(d) == [type |-> "dict", val |-> d]
PyList(l) == [type |-> "list", val |-> l]
PyNumber(n) == [type |-> "number", val |-> n]
PyNone == [type |-> "NoneType", val |-> <<>>]
JSONDecodeError == [type |-> "JSONDecodeError", val |-> <<>>]

\* json.loads on the documents above; any other text is not JSON
json_loads(text) ==
    CASE text = DocFull ->
            PyDict([risk_score |-> Num(85), risk_level |-> "High",
                    key_risk_reasons |->
                        <<"low attendance", "failing grade", "declining trend">>,
                    interventions |->
                        <<[type |-> "teacher", action |-> "tutoring"]>>])
      [] text = DocNoFields -> PyDict([summary |-> "student is doing fine"])
      [] text = DocError -> PyDict([error |-> "missing field"])
      [] text = DocList -> PyList(<<>>)
      [] text = DocNumber -> PyNumber(Num(42))
      [] text = DocNull -> PyNone
      [] OTHER -> JSONDecodeError

RECURSIVE Join(_, _)
Join(chunks, sep) ==
    IF chunks = <<>> THEN ""
    ELSE IF Len(chunks) = 1 THEN chunks[1]
    ELSE chunks[1] \o sep \o Join(Tail(chunks), sep)

Quoted(str) == "\"" \o str \o "\""

\* json.dumps of a list of strings and of a list of {type, action} objects
json_dumps_strings(l) ==
    "[" \o Join([i \in 1..Len(l) |-> Quoted(l[i])], ", ") \o "]"

json_dumps_interventions(l) ==
    "[" \o Join([i \in 1..Len(l) |->
                    "{\"type\": " \o Quoted(l[i].type) \o
                    ", \"action\": " \o Quoted(l[i].action) \o "}"], ", ")
        \o "]"

\* positions of the fences in a response text
FencePositions(text, fences) == { i \in 1..Len(text) : text[i] \in fences }

Min(S) == CHOOSE x \in S : \A y \in S : x <= y

\* text.split(sep)[1].split("```")[0]: what follows the first fence of the
\* kind looked for, up to the next fence of any kind
BetweenFences(text, opening) ==
    LET first == Min(FencePositions(text, opening))
        later == { i \in FencePositions(text, {Fence, FenceJson}) : i > first }
        last == IF later = {} THEN Len(text) + 1 ELSE Min(later)
    IN  SubSeq(text, first + 1, last - 1)

\* lines 104-110: strip, then extract from a markdown code block if present
ExtractJson(text) ==
    IF FencePositions(text, {FenceJson}) # {}
    THEN BetweenFences(text, {FenceJson})
    ELSE IF FencePositions(text, {Fence}) # {}
    THEN BetweenFences(text, {Fence})
    ELSE text

IsMissing(v) == v = NaN

\* what the external collaborator does with one request
ConfigError == [kind |-> "config_error", text |-> <<>>]
ApiError == [kind |-> "api_error", text |-> <<>>]
Responds(text) == [kind |-> "text", text |-> text]

\* mutant: no handler for json.JSONDecodeError, the exception leaves the call
analyze_student_with_ai_DecodeErrorEscapes(attendance_pct, final_grade, trend_recent, missing_assignments, outcome) ==
    IF outcome.kind = "config_error"
    THEN PyDict([error |-> "GEMINI_API_KEY not found in environment variables"])
    ELSE IF \/ IsMissing(attendance_pct) \/ IsMissing(final_grade)
            \/ IsMissing(trend_recent) \/ IsMissing(missing_assignments)
    THEN PyDict([error |-> "missing field"])
    ELSE IF outcome.kind = "api_error"
    THEN PyDict([error |-> "request failed"])
    ELSE json_loads(Join(ExtractJson(outcome.text), " "))

analyze_student_with_ai(attendance_pct, final_grade, trend_recent, missing_assignments, outcome) ==
    IF outcome.kind = "config_error"
    THEN PyDict([error |-> "GEMINI_API_KEY not found in environment variables"])
    ELSE IF \/ IsMissing(attendance_pct) \/ IsMissing(final_grade)
            \/ IsMissing(trend_recent) \/ IsMissing(missing_assignments)
    THEN PyDict([error |-> "missing field"])
    ELSE IF outcome.kind = "api_error"
    THEN PyDict([error |-> "request failed"])
    ELSE LET response_text == Join(ExtractJson(outcome.text), " ")
             result == json_loads(response_text)
         IN  IF result = JSONDecodeError
             THEN PyDict([error |-> "JSON parsing failed",
                          raw_response |-> response_text])
             ELSE result

\* whether generate_content was reached
RequestIssued(attendance_pct, final_grade, trend_recent, missing_assignments, outcome) ==
    /\ outcome.kind # "config_error"
    /\ ~(\/ IsMissing(attendance_pct) \/ IsMissing(final_grade)
         \/ IsMissing(trend_recent) \/ IsMissing(missing_assignments))

DictGet(d, key, default) == IF key \in DOMAIN d THEN d[key] ELSE default

\* mutant: the fallbacks are the constants 0 and 'Low', not the row's values
StudentResult_ConstantFallback(idx, row, result) ==
    [student_id |-> idx,
     ai_risk_score |-> DictGet(result, "risk_score", Num(0)),
     ai_risk_level |-> DictGet(result, "risk_level", "Low"),
     key_risk_reasons |->
        json_dumps_strings(DictGet(result, "key_risk_reasons", <<>>)),
     interventions |->
        json_dumps_interventions(DictGet(result, "interventions", <<>>))]

\* lines 147-153, for a result that is a dict
StudentResult(idx, row, result) ==
    [student_id |-> idx,
     ai_risk_score |->
        DictGet(result, "risk_score", DictGet(row, "risk_score", Num(0))),
     ai_risk_level |->
        DictGet(result, "risk_level", DictGet(row, "risk_level", "Low")),
     key_risk_reasons |->
        json_dumps_strings(DictGet(result, "key_risk_reasons", <<>>)),
     interventions |->
        json_dumps_interventions(DictGet(result, "interventions", <<>>))]

\* mutant: the identifier is recomputed, the column 'index' holds the
\* positions 0 .. n-1 instead of the row labels
ResetIndex_Renumber(d, labels) ==
    [i \in 1..Len(d) |-> WithColumn(d[i], "index", i - 1)]

\* df.reset_index(): the row labels become the column 'index'
ResetIndex(d, labels) ==
    [i \in 1..Len(d) |-> WithColumn(d[i], "index", labels[i])]

NaNAnnotation ==
    [student_id |-> NaN, ai_risk_score |-> NaN, ai_risk_level |-> "NaN",
     key_risk_reasons |-> "NaN", interventions |-> "NaN"]

\* left.merge(right, left_on='index', right_on='student_id', how='left'):
\* per left row, in order, one row for each right row with its key, and one
\* row with the right columns missing when there is none
RECURSIVE MergeLeftFrom(_, _, _)
MergeLeftFrom(left, right, i) ==
    IF i > Len(left) THEN <<>>
    ELSE LET matches ==
                SelectSeq(right, LAMBDA r : r.student_id = left[i].index)
             rows ==
                IF matches = <<>> THEN <<NaNAnnotation @@ left[i]>>
                ELSE [j \in 1..Len(matches) |-> matches[j] @@ left[i]]
         IN  rows \o MergeLeftFrom(left, right, i + 1)

MergeLeft(left, right) == MergeLeftFrom(left, right, 1)

\* pd.DataFrame rows get the labels 0 .. n-1
RangeIndex(n) == [i \in 1..n |-> i - 1]

\* the row labels of a frame passed to process_batch_with_ai: those of a
\* frame as read from the file, and those of a frame whose first row was
\* filtered out before (df.iloc[1:], df[mask]), which start at 1
IndexLabels(n) == { RangeIndex(n), [i \in 1..n |-> i] }

ResponseTexts ==
    { <<DocFull>>, <<DocNoFields>>, <<DocError>>, <<DocList>>, <<DocNumber>>,
      <<DocNull>>, <<Garbage>>,
      <<FenceJson, DocFull, Fence>>,
      <<"Here is the analysis:", Fence, DocFull, Fence, "Let me know.">>,
      <<FenceJson, Garbage, Fence>>,
      <<"Result:", FenceJson, DocNoFields>> }

Outcomes == {ConfigError, ApiError} \cup { Responds(t) : t \in ResponseTexts }

\* the students handed to the annotation step; one has an empty G3 cell,
\* so its final_grade and trend_recent are NaN
AIRecords ==
    { RawRecord(a, 0, 0, g, 0, 2) : a \in 0..1, g \in 0..1 } \cup
    { [RawRecord(0, 0, 0, 1, 0, 2) EXCEPT !.G3 = NaN] }
AIBatches == UNION { [1..n -> AIRecords] : n \in 1..MaxAIBatch }

\* the caller has run process_student_data and is about to call
\* process_batch_with_ai (main_workflow.py, lines 51-56)
InitAI ==
    /\ pc = "ai_loop"
    /\ df_in \in AIBatches
    /\ df = process_student_data(df_in)
    /\ df_index \in IndexLabels(Len(df_in))
    /\ alt_in = None /\ alt_df = None /\ alt_row = 0
    /\ score_arg = None /\ level_ret = "none"
    /\ ai_i = 0 /\ ai_results = <<>> /\ ai_calls = <<>> /\ ai_log = <<>>
    /\ result_df = None
    /\ WfIdle /\ CoreIdle /\ risk_thresholds = RISK_THRESHOLDS
    /\ risk_weights = RISK_WEIGHTS

\* one iteration of the loop of process_batch_with_ai (lines 138-164); a
\* result without .get raises AttributeError out of the function
AnalyzeNextStudent ==
    /\ pc = "ai_loop"
    /\ ai_i < Len(df)
    /\ \E outcome \in Outcomes :
          LET row == df[ai_i + 1]
              idx == df_index[ai_i + 1]
              result == analyze_student_with_ai(
                            row.attendance_pct, row.final_grade,
                            row.trend_recent, Num(row.missing_assignments),
                            outcome)
              issued == RequestIssued(
                            row.attendance_pct, row.final_grade,
                            row.trend_recent, Num(row.missing_assignments),
                            outcome)
              requests == IF issued THEN <<"request">> ELSE <<>>
              sleeps == IF idx + 1 < Len(df) THEN <<"sleep">> ELSE <<>>
          IN  /\ ai_calls' =
                    Append(ai_calls, [outcome |-> outcome, result |-> result,
                                      issued |-> issued])
              /\ IF result.type = "dict"
                 THEN /\ ai_results' =
                            Append(ai_results,
                                   StudentResult(idx, row, result.val))
                      /\ ai_log' = ai_log \o requests \o sleeps
                      /\ ai_i' = ai_i + 1
                      /\ pc' = "ai_loop"
                 ELSE /\ ai_log' = ai_log \o requests
                      /\ pc' = "ai_raised"
                      /\ UNCHANGED <<ai_results, ai_i>>
    /\ UNCHANGED <<df_in, df, df_index, alt_in, alt_df, alt_row,
                   score_arg, level_ret, result_df,
                   df_caller, df_again, risk_thresholds,
                   risk_weights, wf_vars>>

\* lines 166-171, once every row has been iterated
MergeResults ==
    /\ pc = "ai_loop"
    /\ ai_i = Len(df)
    /\ result_df' = MergeLeft(ResetIndex(df, df_index), ai_results)
    /\ pc' = "ai_done"
    /\ UNCHANGED <<df_in, df, df_index, alt_in, alt_df, alt_row,
                   score_arg, level_ret, ai_i, ai_results, ai_calls, ai_log,
                   df_caller, df_again, risk_thresholds,
                   risk_weights, wf_vars>>

NextAI ==
    \/ AnalyzeNextStudent
    \/ MergeResults

SpecAI == InitAI /\ [][NextAI]_vars

(***************************************************************************)
(* kaggle_loader.py, export_manager.py, alert_system.py, main_workflow.py  *)
(***************************************************************************)
MaxWfBatch == 2     \* records in the table run_complete_workflow fetches

Columns(d) == DOMAIN d[1]

required_columns == {"absences", "G1", "G2", "G3", "failures", "studytime"}

\* mutant: G1 left out of the list of required columns
validate_data_NoG1(d) ==
    LET missing_columns ==
            (required_columns \ {"G1"}) \ Columns(d)
    IN  missing_columns = {}

\* TRUE when validation passes, FALSE when it raises ValueError
validate_data(d) ==
    LET missing_columns == required_columns \ Columns(d)
    IN  missing_columns = {}

export_columns ==
    {"student_id", "attendance_pct", "final_grade", "trend_recent",
     "missing_assignments", "risk_score", "risk_level",
     "ai_risk_score", "ai_risk_level", "key_risk_reasons", "interventions"}

\* df[available_columns]
SelectColumns(d, cols) ==
    [i \in 1..Len(d) |-> [c \in cols \cap DOMAIN d[i] |-> d[i][c]]]

\* the rows written to the CSV file
export_to_csv(d) == SelectColumns(d, export_columns)

\* the number of records appended to the worksheet
write_results_to_sheets(d) == Len(SelectColumns(d, export_columns))

\* mutant: every student that is not Low is selected
identify_high_risk_students_NotLow(d) ==
    SelectSeq(d, LAMBDA r : r.risk_level # "Low")

identify_high_risk_students(d) ==
    SelectSeq(d, LAMBDA r : r.risk_level = "High")

\* the alert files written: none when there is no high-risk student
send_teacher_alert(high_risk_students) ==
    IF high_risk_students = <<>> THEN <<>>
    ELSE << [alert_type |-> "HIGH_RISK_STUDENTS",
             count |-> Len(high_risk_students),
             students |-> high_risk_students] >>

\* len(df[df['risk_level'] == level])
CountLevel(d, level) == Len(SelectSeq(d, LAMBDA r : r.risk_level = level))

RECURSIVE SeriesSum(_)
SeriesSum(s) == IF s = <<>> THEN Num(0) ELSE RAdd(Head(s), SeriesSum(Tail(s)))

\* the metadata file (run_id, timestamp and file names left out)
log_run_metadata(d) ==
    [total_students |-> Len(d),
     high_risk_count |-> CountLevel(d, "High"),
     medium_risk_count |-> CountLevel(d, "Medium"),
     low_risk_count |-> CountLevel(d, "Low"),
     average_risk_score |->
        RDiv(SeriesSum(Column(d, "risk_score")), Num(Len(d)))]

\* mutant: students whose call failed get no row in ai_df, and the merge is
\* an inner join, which drops them
process_batch_with_ai_InnerMerge(d, labels, outcomes) ==
    LET result(i) ==
            analyze_student_with_ai(
                d[i].attendance_pct, d[i].final_grade, d[i].trend_recent,
                Num(d[i].missing_assignments), outcomes[i])
        ai_df == [i \in 1..Len(d) |->
                    StudentResult(
                        IF "error" \in DOMAIN result(i).val
                        THEN Len(d) + labels[i] ELSE labels[i],
                        d[i], result(i).val)]
        merged == MergeLeft(ResetIndex(d, labels), ai_df)
    IN  IF \E i \in 1..Len(d) : result(i).type # "dict"
        THEN [raised |-> TRUE, df |-> None]
        ELSE [raised |-> FALSE,
              df |-> SelectSeq(merged, LAMBDA r : r.ai_risk_level # "NaN")]

\* process_batch_with_ai as one call: outcomes[i] is what the collaborator
\* does with the request for row i; a result without .get raises
process_batch_with_ai(d, labels, outcomes) ==
    LET result(i) ==
            analyze_student_with_ai(
                d[i].attendance_pct, d[i].final_grade, d[i].trend_recent,
                Num(d[i].missing_assignments), outcomes[i])
        ai_df == [i \in 1..Len(d) |->
                    StudentResult(labels[i], d[i], result(i).val)]
    IN  IF \E i \in 1..Len(d) : result(i).type # "dict"
        THEN [raised |-> TRUE, df |-> None]
        ELSE [raised |-> FALSE, df |-> MergeLeft(ResetIndex(d, labels), ai_df)]

\* main_workflow.py, lines 60-63: step 3 without AI
SkipAI(d) ==
    [i \in 1..Len(d) |->
        [ai_risk_score |-> d[i].risk_score,
         ai_risk_level |-> d[i].risk_level,
         key_risk_reasons |-> json_dumps_strings(<<>>),
         interventions |-> json_dumps_strings(<<>>)] @@ d[i]]

Did(st, step) == [st EXCEPT !.steps = Append(@, step)]
Raise(st, error) == [st EXCEPT !.exc = error]
\* the collaborator of the step being executed raises
Fail(st, step) == [Did(st, step) EXCEPT !.failed = @ \cup {step}]

\* The steps of the try block of run_complete_workflow.  st holds the local
\* df, the steps executed, what the sinks hold and the exception on its way
\* to the outer handler ("none" when there is none); fails is the set of
\* collaborators that error in this run.
Step1Fetch(st, table, fails) ==
    IF "fetch" \in fails
    THEN Raise(Fail(st, "fetch"), "dataset not found")
    ELSE [Did(st, "fetch") EXCEPT !.df = table]

Step1Validate(st) ==
    IF st.exc # "none" THEN st
    ELSE IF validate_data(st.df) THEN Did(st, "validate")
    ELSE Raise(Did(st, "validate"), "Missing required columns")

Step2Process(st) ==
    IF st.exc # "none" THEN st
    ELSE [Did(st, "process") EXCEPT !.df = process_student_data(st.df)]

Step3AI(st, use_ai, outcomes) ==
    IF st.exc # "none" THEN st
    ELSE IF ~use_ai THEN [st EXCEPT !.df = SkipAI(st.df)]
    ELSE LET call == process_batch_with_ai(
                        st.df, RangeIndex(Len(st.df)), outcomes)
         IN  IF call.raised
             THEN Raise(Did(st, "ai"),
                        "object has no attribute 'get'")
             ELSE [Did(st, "ai") EXCEPT !.df = call.df]

Step4Csv(st, fails) ==
    IF st.exc # "none" THEN st
    ELSE IF "csv" \in fails THEN Raise(Fail(st, "csv"), "csv export failed")
    ELSE [Did(st, "csv") EXCEPT
            !.sinks.csv = Append(@, export_to_csv(st.df))]

\* mutant: the Sheets step has no handler of its own, its failure reaches
\* the outer handler
Step5Sheets_Propagates(st, export_sheets, fails) ==
    IF st.exc # "none" \/ ~export_sheets THEN st
    ELSE IF "sheets" \in fails
    THEN Raise(Fail(st, "sheets"), "sheets export failed")
    ELSE [Did(st, "sheets") EXCEPT
            !.sinks.sheets = Append(@, write_results_to_sheets(st.df)),
            !.sheet_url = "url"]

\* the only step with a handler of its own: a failure leaves sheet_url None
Step5Sheets(st, export_sheets, fails) ==
    IF st.exc # "none" \/ ~export_sheets THEN st
    ELSE IF "sheets" \in fails THEN Fail(st, "sheets")
    ELSE [Did(st, "sheets") EXCEPT
            !.sinks.sheets = Append(@, write_results_to_sheets(st.df)),
            !.sheet_url = "url"]

\* send_teacher_alert touches the file system only for a non-empty subset
Step6Alert(st, fails) ==
    IF st.exc # "none" THEN st
    ELSE LET high_risk_students == identify_high_risk_students(st.df)
             found == [Did(st, "alert") EXCEPT !.high = high_risk_students]
         IN  IF "alert" \in fails /\ high_risk_students # <<>>
             THEN Raise([Fail(st, "alert") EXCEPT !.high = high_risk_students],
                        "alert log failed")
             ELSE [found EXCEPT
                     !.sinks.alert = @ \o send_teacher_alert(high_risk_students)]

Step7Metadata(st, fails) ==
    IF st.exc # "none" THEN st
    ELSE IF "metadata" \in fails
    THEN Raise(Fail(st, "metadata"), "metadata log failed")
    ELSE [Did(st, "metadata") EXCEPT
            !.sinks.metadata = Append(@, log_run_metadata(st.df))]

\* lines 91-103 and 108-114 (run_id and the file names left out)
Summary(st) ==
    IF st.exc # "none"
    THEN [status |-> "failed", error |-> st.exc]
    ELSE [status |-> "success",
          total_students |-> Len(st.df),
          high_risk_count |-> Len(st.high),
          medium_risk_count |-> CountLevel(st.df, "Medium"),
          low_risk_count |-> CountLevel(st.df, "Low"),
          google_sheets |-> st.sheet_url]

run_complete_workflow(table, use_ai, export_sheets, outcomes, fails) ==
    LET entry == [df |-> None, steps |-> <<>>, failed |-> {},
                  sinks |-> NoSinks, high |-> <<>>, sheet_url |-> "None",
                  exc |-> "none"]
        s1 == Step1Validate(Step1Fetch(entry, table, fails))
        s3 == Step3AI(Step2Process(s1), use_ai, outcomes)
        s5 == Step5Sheets(Step4Csv(s3, fails), export_sheets, fails)
        s7 == Step7Metadata(Step6Alert(s5, fails), fails)
    IN  [summary |-> Summary(s7), steps |-> s7.steps, failed |-> s7.failed,
         df |-> s7.df, sinks |-> s7.sinks]

\* missing values as read_csv yields them for empty cells
WfRecords ==
    { RawRecord(1, 0, 0, 0, 0, 2), RawRecord(0, 0, 0, 1, 0, 2),
      RawRecord(0, 0, 0, 0, 0, 2) } \cup
    { [RawRecord(0, 0, 0, 1, 0, 2) EXCEPT ![c] = NaN] : c \in {"absences", "G3"} }

WfBatches == UNION { [1..n -> WfRecords] : n \in 1..MaxWfBatch }

DropColumn(d, col) ==
    [i \in 1..Len(d) |-> [c \in DOMAIN d[i] \ {col} |-> d[i][c]]]

\* the tables the dataset file may hold: complete ones, and ones that lack
\* a required column
WfTables ==
    WfBatches \cup
    { DropColumn(<<RawRecord(1, 0, 0, 0, 0, 2)>>, c) : c \in required_columns }

\* the responses of the external model in a workflow run
WfOutcomes == {ApiError, Responds(<<DocFull>>), Responds(<<DocList>>)}

\* one response per request of the run (no request is made without use_ai)
WfResponses(table, use_ai) ==
    IF use_ai THEN [1..Len(table) -> WfOutcomes] ELSE {<<>>}

Sinks == {"csv", "sheets", "alert", "metadata"}

\* the collaborators that error in a run: none, or one of them
Failures == {{}} \cup { {c} : c \in Sinks \cup {"fetch"} }

InitWorkflow ==
    /\ pc = "wf_start"
    /\ wf_in \in WfTables
    /\ wf_args \in [use_ai : BOOLEAN, export_sheets : BOOLEAN]
    /\ wf_steps = <<>> /\ wf_failed = {} /\ wf_df = None
    /\ wf_sinks = NoSinks /\ summary = None
    /\ workflow_data = None /\ st_error = "none"
    /\ df_in = None /\ df = None /\ df_index = <<>>
    /\ alt_in = None /\ alt_df = None /\ alt_row = 0
    /\ score_arg = None /\ level_ret = "none"
    /\ ai_i = 0 /\ ai_results = <<>> /\ ai_calls = <<>> /\ ai_log = <<>>
    /\ result_df = None
    /\ CoreIdle /\ risk_thresholds = RISK_THRESHOLDS
    /\ risk_weights = RISK_WEIGHTS

RunCompleteWorkflow ==
    /\ pc = "wf_start"
    /\ \E outcomes \in WfResponses(wf_in, wf_args.use_ai), fails \in Failures :
          LET run == run_complete_workflow(
                        wf_in, wf_args.use_ai, wf_args.export_sheets,
                        outcomes, fails)
          IN  /\ summary' = run.summary
              /\ wf_steps' = run.steps
              /\ wf_failed' = run.failed
              /\ wf_df' = run.df
              /\ wf_sinks' = run.sinks
    /\ pc' = "wf_done"
    /\ UNCHANGED <<wf_in, wf_args, df_in, df, df_index, alt_in, alt_df,
                   alt_row, score_arg, level_ret, ai_i, ai_results, ai_calls,
                   ai_log, result_df, df_caller, df_again,
                   risk_thresholds, risk_weights, workflow_data, st_error>>

(***************************************************************************)
(* streamlit_app.py: run_workflow, the handler of the button               *)
(* "Run Complete Workflow".                                                *)
(***************************************************************************)
ai_columns ==
    <<"ai_risk_score", "ai_risk_level", "key_risk_reasons", "interventions">>

\* str(KeyError(col)), as st.error shows it
KeyError(col) == "KeyError " \o col

IsNa(v) == v = NaN \/ v = "NaN"

\* df.head(sample_size)
head(d, n) == SubSeq(d, 1, Min({n, Len(d)}))

\* df[col].fillna(other[col]): the labels of both frames are 0 .. n-1, so
\* row i is filled from row i of the other frame
FillNa(d, col, other, from) ==
    [i \in 1..Len(d) |->
        IF IsNa(d[i][col]) /\ i <= Len(other)
        THEN [d[i] EXCEPT ![col] = other[i][from]]
        ELSE d[i]]

\* lines 188-190: reading df[col] raises KeyError when df has no such column
RECURSIVE MergeBackFrom(_, _, _)
MergeBackFrom(d, sample_df, k) ==
    IF k > Len(ai_columns) THEN [exc |-> "none", df |-> d]
    ELSE LET col == ai_columns[k]
         IN  IF col \notin Columns(sample_df)
             THEN MergeBackFrom(d, sample_df, k + 1)
             ELSE IF col \notin Columns(d)
             THEN [exc |-> KeyError(col), df |-> d]
             ELSE MergeBackFrom(FillNa(d, col, sample_df, col),
                                sample_df, k + 1)

\* lines 193-196
FillDefaults(d) ==
    IF \E k \in 1..Len(ai_columns) : ai_columns[k] \notin Columns(d)
    THEN [exc |-> KeyError(ai_columns[
                     Min({ k \in 1..Len(ai_columns) :
                             ai_columns[k] \notin Columns(d) })]),
          df |-> d]
    ELSE LET scored == FillNa(FillNa(d, "ai_risk_score", d, "risk_score"),
                              "ai_risk_level", d, "risk_level")
         IN  [exc |-> "none",
              df |-> [i \in 1..Len(scored) |->
                        [c \in DOMAIN scored[i] |->
                            IF c \in {"key_risk_reasons", "interventions"}
                               /\ IsNa(scored[i][c])
                            THEN "[]" ELSE scored[i][c]]]]

\* lines 193-198: the defaults are filled in and the step is done
StreamlitFilled(st, filled) ==
    IF filled.exc # "none" THEN Raise(st, filled.exc)
    ELSE [st EXCEPT !.df = filled.df]

\* lines 188-196, after process_batch_with_ai returned
StreamlitMerged(st, merged) ==
    IF merged.exc # "none" THEN Raise(st, merged.exc)
    ELSE StreamlitFilled(st, FillDefaults(merged.df))

\* lines 184-185: sample_df = process_batch_with_ai(df.head(sample_size).copy())
StreamlitSample(sample, outcomes) ==
    process_batch_with_ai(sample, RangeIndex(Len(sample)), outcomes)

StreamlitAnnotated(st, call) ==
    IF call.raised THEN Raise(st, "object has no attribute 'get'")
    ELSE StreamlitMerged(st, MergeBackFrom(st.df, call.df, 1))

\* Step 3 of the handler
StreamlitStep3AI(st, use_ai, sample_size, outcomes) ==
    IF st.exc # "none" THEN st
    ELSE IF ~use_ai THEN [st EXCEPT !.df = SkipAI(st.df)]
    ELSE StreamlitAnnotated(
            Did(st, "ai"),
            StreamlitSample(head(st.df, sample_size), outcomes))

\* Step 5 of the handler: the high-risk students are counted, no alert is
\* written; then the frame is stored in the session state
StreamlitStep5Alerts(st) ==
    IF st.exc # "none" THEN st
    ELSE [Did(st, "alert") EXCEPT
            !.high = identify_high_risk_students(st.df),
            !.workflow_data = st.df]

StreamlitEntry ==
    [df |-> None, steps |-> <<>>, failed |-> {}, sinks |-> NoSinks,
     high |-> <<>>, sheet_url |-> "None", exc |-> "none",
     workflow_data |-> None]

\* the handler's local state when it returns
run_workflow(table, use_ai, sample_size, export_sheets, outcomes, fails) ==
    Step7Metadata(
        StreamlitStep5Alerts(
            Step4Csv(
                StreamlitStep3AI(
                    Step2Process(
                        Step1Validate(
                            Step1Fetch(StreamlitEntry, table, fails))),
                    use_ai, sample_size, outcomes),
                fails)),
        fails)

\* the sample sizes of the slider, scaled to the size of the tables
SampleSizes == 1..MaxWfBatch

\* the collaborators of the handler that error in a run: none, or one
StreamlitFailures == {{}} \cup { {c} : c \in {"fetch", "csv", "metadata"} }

StreamlitRunWorkflow ==
    /\ pc = "wf_start"
    /\ \E sample_size \in SampleSizes, fails \in StreamlitFailures :
       \E outcomes \in WfResponses(head(wf_in, sample_size), wf_args.use_ai) :
       \E run \in { run_workflow(wf_in, wf_args.use_ai, sample_size,
                                 wf_args.export_sheets, outcomes, fails) } :
              /\ workflow_data' = run.workflow_data
              /\ st_error' = run.exc
              /\ wf_steps' = run.steps
              /\ wf_failed' = run.failed
              /\ wf_df' = run.df
              /\ wf_sinks' = run.sinks
              /\ wf_args' = [use_ai |-> wf_args.use_ai,
                             export_sheets |-> wf_args.export_sheets,
                             sample_size |-> sample_size]
    /\ pc' = "st_done"
    /\ UNCHANGED <<wf_in, summary, df_in, df, df_index, alt_in,
                   alt_df, alt_row, score_arg, level_ret, ai_i, ai_results,
                   ai_calls, ai_log, result_df, df_caller, df_again,
                   risk_thresholds, risk_weights>>

NextWorkflow == RunCompleteWorkflow \/ StreamlitRunWorkflow

SpecWorkflow == InitWorkflow /\ [][NextWorkflow]_vars

(***************************************************************************)
(* Properties of the deterministic core.                                   *)
(***************************************************************************)
InRange(x) == RLe(Num(0), x) /\ RLe(x, Num(100))

Rows(d) == 1..Len(d)

\* C1: after process_student_data on a non-empty batch with absences >= 0,
\* each of the four risk components and the risk_score of every record lies
\* in [0, 100].
C1_RiskBounded ==
    pc = "processed" =>
        \A i \in Rows(df) :
            /\ InRange(df[i].attendance_risk)
            /\ InRange(df[i].grade_risk)
            /\ InRange(df[i].trend_risk)
            /\ InRange(df[i].missing_assignments_risk)
            /\ InRange(df[i].risk_score)

\* a processed batch holding both extremes: a record at 100 and one at 0
C1_Witness ==
    /\ pc = "processed"
    /\ \A i \in Rows(df_in) : RLe(Num(0), df_in[i].absences)
    /\ \E i \in Rows(df) : df[i].risk_score = Num(100)
    /\ \E i \in Rows(df) : df[i].risk_score = Num(0)

\* C2 as stated: Low exactly when score <= 39, Medium exactly when
\* 40 <= score <= 69, High exactly when score >= 70, also for non-integer
\* scores.
StatedBands(score, level) ==
    /\ level = "Low" <=> RLe(score, Num(39))
    /\ level = "Medium" <=> (RLe(Num(40), score) /\ RLe(score, Num(69)))
    /\ level = "High" <=> RLe(Num(70), score)

CodeBands(score, level) ==
    /\ level = "Low" <=> RLe(score, Num(39))
    /\ level = "Medium" <=> (RLt(Num(39), score) /\ RLe(score, Num(69)))
    /\ level = "High" <=> RLt(Num(69), score)

C3_LevelFunctionOfScore ==
    /\ pc = "levelled" =>
          /\ score_arg = Num(39) => level_ret = "Low"
          /\ score_arg = Num(40) => level_ret = "Medium"
          /\ score_arg = Num(69) => level_ret = "Medium"
          /\ score_arg = Num(70) => level_ret = "High"
    /\ pc = "processed" =>
          /\ \A i \in Rows(df) :
                df[i].risk_level = assign_risk_level(df[i].risk_score)
          /\ \A i, j \in Rows(df) :
                df[i].risk_score = df[j].risk_score =>
                    df[i].risk_level = df[j].risk_level

\* the boundary score 70 has been classified
C3_Witness ==
    /\ pc = "levelled"
    /\ score_arg = Num(70)
    /\ level_ret = "High"

\* the derived features scenario A names
ScenarioAFeatures(r) ==
    /\ r.attendance_pct = Num(100)
    /\ r.final_grade = Num(17)
    /\ r.trend_recent = Num(1)
    /\ r.missing_assignments = 0

AllComponents(r, v) ==
    /\ r.attendance_risk = v
    /\ r.grade_risk = v
    /\ r.trend_risk = v
    /\ r.missing_assignments_risk = v

\* C5: in the five-record batch of scenario B the record with absences = 20
\* gets all four components 100, risk_score 100 and level High, and the
\* record with absences = 0 gets all four components 0, risk_score 0 and
\* level Low.
C5_ScenarioB ==
    (pc = "processed" /\ df_in = TestStudentData) =>
        /\ Len(df) = 5
        /\ \A i \in Rows(df) :
              /\ df[i].absences = Num(20) =>
                    /\ AllComponents(df[i], Num(100))
                    /\ df[i].risk_score = Num(100)
                    /\ df[i].risk_level = "High"
              /\ df[i].absences = Num(0) =>
                    /\ AllComponents(df[i], Num(0))
                    /\ df[i].risk_score = Num(0)
                    /\ df[i].risk_level = "Low"

\* scenario B's batch has been processed, both named records in it
C5_Witness ==
    /\ pc = "processed"
    /\ df_in = TestStudentData
    /\ \E i, j \in Rows(df) :
          df[i].absences = Num(20) /\ df[j].absences = Num(0)

SameInColumn(d, col) == \A i, j \in Rows(d) : d[i][col] = d[j][col]

\* C6 as stated: identical absences in every record give attendance_risk
\* 100 for every record.
C6_Original ==
    (pc = "processed" /\ SameInColumn(df_in, "absences")) =>
        \A i \in Rows(df) : df[i].attendance_risk = Num(100)

\* C6 as amended: identical absences in every record give every record the
\* same attendance_pct (100 when the common value is 0, else 0), and
\* attendance_risk is the neutral 50 for every record.
C6_SameAbsencesNeutral ==
    (pc = "processed" /\ SameInColumn(df_in, "absences")) =>
        \A i \in Rows(df) :
            /\ df[i].attendance_pct =
                  (IF df_in[1].absences = Num(0) THEN Num(100) ELSE Num(0))
            /\ df[i].attendance_risk = Num(50)

\* two records or more, all with the same positive number of absences
C6_Witness ==
    /\ pc = "processed"
    /\ Len(df_in) >= 2
    /\ SameInColumn(df_in, "absences")
    /\ RLt(Num(0), df_in[1].absences)
    /\ \A i \in Rows(df) : df[i].attendance_risk = Num(50)

\* C7: a normalized feature with the same value in every record gives that
\* feature's risk component 50 in every record, whatever the other features.
C7_ZeroVarianceNeutral ==
    pc = "processed" =>
        /\ SameInColumn(df, "attendance_pct") =>
              \A i \in Rows(df) : df[i].attendance_risk = Num(50)
        /\ SameInColumn(df, "final_grade") =>
              \A i \in Rows(df) : df[i].grade_risk = Num(50)
        /\ SameInColumn(df, "trend_recent") =>
              \A i \in Rows(df) : df[i].trend_risk = Num(50)

\* identical final grades in a batch whose absences and trends are spread
C7_Witness ==
    /\ pc = "processed"
    /\ Len(df) >= 2
    /\ SameInColumn(df, "final_grade")
    /\ ~SameInColumn(df, "attendance_pct")
    /\ ~SameInColumn(df, "trend_recent")
    /\ \A i \in Rows(df) : df[i].grade_risk = Num(50)

\* C8: lowering G3 of one record, everything else fixed, does not lower
\* that record's grade_risk (min and max recomputed on the modified batch).
C8_GradeRiskMonotone ==
    pc = "compared" =>
        RLe(df[alt_row].grade_risk, alt_df[alt_row].grade_risk)

\* the lowered record was the batch's only maximum, so the batch maximum
\* changed, and its grade_risk rose strictly
C8_Witness ==
    /\ pc = "compared"
    /\ Len(df_in) >= 3
    /\ \A j \in Rows(df_in) :
          j # alt_row => RLt(df_in[j].G3, df_in[alt_row].G3)
    /\ \E j \in Rows(alt_in) : RLt(alt_in[alt_row].G3, alt_in[j].G3)
    /\ RLt(df[alt_row].grade_risk, alt_df[alt_row].grade_risk)

(***************************************************************************)
(* Properties of the annotation loop.                                      *)
(***************************************************************************)
\* what analyze_student_with_ai returns for a failed call: a dict carrying
\* the key 'error'
IsErrorMarker(result) ==
    result.type = "dict" /\ "error" \in DOMAIN result.val

\* C9: a student whose call yielded an error marker keeps its deterministic
\* risk_score and risk_level in the DataFrame process_batch_with_ai returns,
\* with ai_risk_score = risk_score, ai_risk_level = risk_level and empty
\* (serialized) lists of reasons and interventions.
C9_FallbackOnFailure ==
    pc = "ai_done" =>
        /\ Len(result_df) = Len(df)
        /\ \A k \in 1..Len(ai_calls) :
              IsErrorMarker(ai_calls[k].result) =>
                  /\ result_df[k].index = df_index[k]
                  /\ result_df[k].risk_score = df[k].risk_score
                  /\ result_df[k].risk_level = df[k].risk_level
                  /\ result_df[k].ai_risk_score = result_df[k].risk_score
                  /\ result_df[k].ai_risk_level = result_df[k].risk_level
                  /\ result_df[k].key_risk_reasons = "[]"
                  /\ result_df[k].interventions = "[]"

\* a finished batch of two: one student's response was unparsable text and
\* fell back, the other's was annotated
C9_Witness ==
    /\ pc = "ai_done"
    /\ \E k, j \in 1..Len(ai_calls) :
          /\ ai_calls[k].outcome = Responds(<<Garbage>>)
          /\ ai_calls[k].result.val.error = "JSON parsing failed"
          /\ result_df[k].ai_risk_score = df[k].risk_score
          /\ ai_calls[j].outcome = Responds(<<DocFull>>)
          /\ result_df[j].ai_risk_score = Num(85)

\* C10: whatever the external call yields for any student (error, timeout,
\* unparsable text, JSON of an unexpected shape), process_batch_with_ai
\* terminates normally, and every student of a returned batch carries an
\* annotation or the fallback values.
C10_BatchNeverAborts ==
    /\ pc # "ai_raised"
    /\ pc = "ai_done" =>
          /\ Len(result_df) = Len(df)
          /\ \A k \in 1..Len(result_df) :
                \/ /\ "risk_score" \in DOMAIN ai_calls[k].result.val
                   /\ result_df[k].ai_risk_score =
                         ai_calls[k].result.val.risk_score
                \/ /\ result_df[k].ai_risk_score = df[k].risk_score
                   /\ result_df[k].ai_risk_level = df[k].risk_level

\* the texts a fenced response offers for parsing: what lies between a fence
\* and the next fence (or the end of the text); the whole text when there is
\* no fence
Unwrappings(text) ==
    LET fences == FencePositions(text, {Fence, FenceJson})
        Close(i) == IF \E j \in fences : j > i
                    THEN Min({ j \in fences : j > i })
                    ELSE Len(text) + 1
    IN  IF fences = {} THEN {text}
        ELSE { SubSeq(text, i + 1, Close(i) - 1) : i \in fences }

\* the call returned the parsed document, or an error marker when the text
\* is not JSON
ParsedOrMarked(result, text) ==
    LET parsed == json_loads(Join(text, " "))
    IN  IF parsed.type = "JSONDecodeError"
        THEN IsErrorMarker(result)
        ELSE result.type = parsed.type /\ result = parsed

\* C11: analyze_student_with_ai never raises; a response holding a fenced
\* block is parsed from the text between the opening fence and the next
\* fence, and a response whose unwrapped text is not JSON yields a dict with
\* the key 'error'.
C11_ParseFailsClosed ==
    \A k \in 1..Len(ai_calls) :
        LET call == ai_calls[k]
        IN  /\ call.result.type \in {"dict", "list", "number", "NoneType"}
            /\ (call.outcome.kind # "text" \/ ~call.issued) =>
                  IsErrorMarker(call.result)
            /\ (call.outcome.kind = "text" /\ call.issued) =>
                  \E text \in Unwrappings(call.outcome.text) :
                      ParsedOrMarked(call.result, text)

\* one call was answered with a fenced JSON document and returned it parsed,
\* another with fenced prose and returned an error marker
C11_Witness ==
    \E k, j \in 1..Len(ai_calls) :
        /\ ai_calls[k].outcome = Responds(<<FenceJson, DocFull, Fence>>)
        /\ ai_calls[k].issued
        /\ ai_calls[k].result.type = "dict"
        /\ ai_calls[k].result.val.risk_level = "High"
        /\ ai_calls[j].outcome = Responds(<<FenceJson, Garbage, Fence>>)
        /\ ai_calls[j].issued
        /\ IsErrorMarker(ai_calls[j].result)
        /\ ai_calls[j].result.val.raw_response = Garbage

(***************************************************************************)
(* Properties of run_complete_workflow.                                    *)
(***************************************************************************)
StepsDone == { wf_steps[i] : i \in 1..Len(wf_steps) }

LacksRequiredColumn(d) == required_columns \ Columns(d) # {}

\* C12: when the fetched table lacks a required column, the workflow
\* returns a summary with status 'failed' and an error description, and no
\* scoring, annotation, CSV, Sheets, alert or metadata step is executed.
C12_MissingColumnFailsFirst ==
    (pc = "wf_done" /\ LacksRequiredColumn(wf_in)) =>
        /\ summary.status = "failed"
        /\ "error" \in DOMAIN summary
        /\ StepsDone \cap
              {"process", "ai", "csv", "sheets", "alert", "metadata"} = {}
        /\ wf_sinks = NoSinks

\* a run on a table without the column studytime stopped at validation
C12_Witness ==
    /\ pc = "wf_done"
    /\ "studytime" \notin Columns(wf_in)
    /\ wf_steps = <<"fetch", "validate">>
    /\ summary.error = "Missing required columns"

HasMissingValue(d) ==
    /\ ~LacksRequiredColumn(d)
    /\ \E i \in 1..Len(d) : \E c \in required_columns : IsNaN(d[i][c])

\* C13: when all six required columns are present but some record has a
\* missing (NaN) value in a required field, the whole batch is failed: the
\* run ends with status 'failed' and no record is given risk components, a
\* risk_score or a risk_level.
C13_MissingValueFailsBatch ==
    (pc = "wf_done" /\ HasMissingValue(wf_in)) =>
        /\ summary.status = "failed"
        /\ "process" \notin StepsDone
        /\ wf_sinks = NoSinks

\* the sinks this run is asked to write
SinksAsked == IF wf_args.export_sheets THEN Sinks ELSE Sinks \ {"sheets"}

\* C14: when one sink of a run fails (CSV export, Sheets export, alert log,
\* metadata log), every other sink is still attempted in that run, and the
\* result batch is kept as it was scored.
C14_SinksIndependent ==
    (pc = "wf_done" /\ wf_failed \cap Sinks # {}) =>
        /\ SinksAsked \subseteq StepsDone
        /\ Len(wf_df) = Len(wf_in)
        /\ \A i \in 1..Len(wf_df) : "risk_level" \in DOMAIN wf_df[i]

HighRows(d) == { i \in 1..Len(d) : d[i].risk_level = "High" }

\* C15: in a run whose alert step completed, the students of the alert are
\* exactly the records of the result batch whose risk_level is High; an
\* alert record of type HIGH_RISK_STUDENTS is written if and only if there is
\* such a record, and its count is their number; the batch is the one that
\* was exported before and is logged after the step.
C15_AlertIsHighSubset ==
    (pc = "wf_done" /\ "alert" \in StepsDone /\ "alert" \notin wf_failed) =>
        /\ wf_sinks.alert # <<>> <=> HighRows(wf_df) # {}
        /\ Len(wf_sinks.alert) <= 1
        /\ \A k \in 1..Len(wf_sinks.alert) :
              LET alert == wf_sinks.alert[k]
              IN  /\ alert.alert_type = "HIGH_RISK_STUDENTS"
                  /\ alert.count = Cardinality(HighRows(wf_df))
                  /\ Len(alert.students) = alert.count
                  /\ \A j \in 1..Len(alert.students) :
                        alert.students[j].risk_level = "High"
                  /\ \A i \in HighRows(wf_df) :
                        \E j \in 1..Len(alert.students) :
                            alert.students[j] = wf_df[i]
        /\ wf_sinks.csv = <<SelectColumns(wf_df, export_columns)>>
        /\ \A k \in 1..Len(wf_sinks.metadata) :
              wf_sinks.metadata[k].high_risk_count =
                  Cardinality(HighRows(wf_df))

\* a run alerted on the one High student of a batch of two
C15_Witness ==
    /\ pc = "wf_done"
    /\ Len(wf_df) = 2
    /\ Cardinality(HighRows(wf_df)) = 1
    /\ Len(wf_sinks.alert) = 1
    /\ wf_sinks.alert[1].count = 1
    /\ wf_sinks.metadata # <<>>

\* C16: run_complete_workflow always returns a summary whose status is
\* 'success' or 'failed', with an error description when failed; when the
\* status is 'success', total_students is the number of records of the input
\* table and the High, Medium and Low counts add up to it.
C16_SummaryAccountsForAll ==
    pc = "wf_done" =>
        /\ summary.status \in {"success", "failed"}
        /\ summary.status = "failed" =>
              "error" \in DOMAIN summary /\ summary.error # ""
        /\ summary.status = "success" =>
              /\ summary.total_students = Len(wf_in)
              /\ summary.high_risk_count + summary.medium_risk_count
                    + summary.low_risk_count = summary.total_students
              /\ Len(wf_df) = Len(wf_in)
              /\ \A k \in 1..Len(wf_sinks.csv) :
                    Len(wf_sinks.csv[k]) = Len(wf_in)

\* a successful run with AI on two students, one annotated and one whose
\* request failed
C16_Witness ==
    /\ pc = "wf_done"
    /\ summary.status = "success"
    /\ summary.total_students = 2
    /\ "ai" \in StepsDone
    /\ \E i, j \in 1..Len(wf_df) :
          /\ wf_df[i].ai_risk_score = Num(85)
          /\ wf_df[j].key_risk_reasons = "[]"

(***************************************************************************)
(* Further properties of the deterministic core.                           *)
(***************************************************************************)
\* C17: alone in a batch, the students of test cases 1 and 4 get a
\* risk_score below 40 and the level Low, and the students of test cases 3
\* and 5 get a risk_score of at least 70 and the level High.
C17_SingleRecordAsTestsExpect ==
    pc = "processed" =>
        /\ df_in \in {TestCase1, TestCase4} =>
              RLt(df[1].risk_score, Num(40)) /\ df[1].risk_level = "Low"
        /\ df_in \in {TestCase3, TestCase5} =>
              RLe(Num(70), df[1].risk_score) /\ df[1].risk_level = "High"

ScoredColumns ==
    {"attendance_pct", "final_grade", "trend_recent", "missing_assignments",
     "attendance_risk", "grade_risk", "trend_risk",
     "missing_assignments_risk", "risk_score", "risk_level"}

SameRange(d, e, col) ==
    /\ SeriesMin(Column(d, col)) = SeriesMin(Column(e, col))
    /\ SeriesMax(Column(d, col)) = SeriesMax(Column(e, col))

Components(r) ==
    <<r.attendance_risk, r.grade_risk, r.trend_risk,
      r.missing_assignments_risk>>

\* the records whose raw data is the same in the two batches
Unchanged == { i \in Rows(df_in) : df_in[i] = alt_in[i] }

\* C19 as stated: for a student whose raw record is the same in two
\* different batches, every risk component and the risk_score differ between
\* the two batches.
C19_Original ==
    pc = "compared" =>
        \A i \in Unchanged :
            /\ df[i].attendance_risk # alt_df[i].attendance_risk
            /\ df[i].grade_risk # alt_df[i].grade_risk
            /\ df[i].trend_risk # alt_df[i].trend_risk
            /\ df[i].missing_assignments_risk #
                  alt_df[i].missing_assignments_risk
            /\ df[i].risk_score # alt_df[i].risk_score

\* C19 as amended: for such a student missing_assignments_risk is the same
\* in both batches; attendance_risk, grade_risk and trend_risk are the same
\* whenever the student's feature and the batch minimum and maximum of the
\* feature are the same in both batches (they can differ otherwise); and the
\* risk_score is the same when the four components are.
C19_BatchRelative ==
    pc = "compared" =>
        \A i \in Unchanged :
            /\ df[i].missing_assignments_risk =
                  alt_df[i].missing_assignments_risk
            /\ (/\ df[i].attendance_pct = alt_df[i].attendance_pct
                /\ SameRange(df, alt_df, "attendance_pct")) =>
                  df[i].attendance_risk = alt_df[i].attendance_risk
            /\ SameRange(df, alt_df, "final_grade") =>
                  df[i].grade_risk = alt_df[i].grade_risk
            /\ SameRange(df, alt_df, "trend_recent") =>
                  df[i].trend_risk = alt_df[i].trend_risk
            /\ Components(df[i]) = Components(alt_df[i]) =>
                  df[i].risk_score = alt_df[i].risk_score

\* the batch minimum of G3 moved: an unchanged student's grade_risk,
\* trend_risk and risk_score differ between the two batches, while its
\* attendance_risk and missing_assignments_risk do not
C19_Witness ==
    /\ pc = "compared"
    /\ \E i \in Unchanged :
          /\ df[i].grade_risk # alt_df[i].grade_risk
          /\ df[i].trend_risk # alt_df[i].trend_risk
          /\ df[i].risk_score # alt_df[i].risk_score
          /\ df[i].attendance_risk = alt_df[i].attendance_risk
          /\ df[i].missing_assignments_risk =
                alt_df[i].missing_assignments_risk

\* C20: the classification of assign_risk_level follows the configured table
\* RISK_THRESHOLDS: Low for score <= low, Medium for low < score <= medium,
\* High otherwise, for any configured pair (low, medium).
C20_BandsFromConfig ==
    pc = "levelled" =>
        level_ret =
            IF RLe(score_arg, Num(risk_thresholds.low)) THEN "Low"
            ELSE IF RLe(score_arg, Num(risk_thresholds.medium)) THEN "Medium"
            ELSE "High"

WeightSum(w) ==
    RAdd(RAdd(RAdd(w.attendance, w.grade), w.trend), w.missing_assignments)

\* C21: the four weights (0.35, 0.35, 0.20, 0.10) sum to 1, and a weight
\* table that does not sum to 1 is rejected when the configuration is
\* loaded, so that no record is ever scored with it.
C21_WeightsAssertedAtLoad ==
    /\ RISK_WEIGHTS.attendance = Rat(35, 100)
    /\ RISK_WEIGHTS.grade = Rat(35, 100)
    /\ RISK_WEIGHTS.trend = Rat(20, 100)
    /\ RISK_WEIGHTS.missing_assignments = Rat(10, 100)
    /\ WeightSum(RISK_WEIGHTS) = Num(1)
    /\ pc = "config_scored" => WeightSum(risk_weights) = Num(1)

(***************************************************************************)
(* Further properties of the annotation loop.                              *)
(***************************************************************************)
Requests == { p \in 1..Len(ai_log) : ai_log[p] = "request" }
Sleeps == { p \in 1..Len(ai_log) : ai_log[p] = "sleep" }

\* C22: students are annotated one at a time in row order, and whatever the
\* row labels of the batch, a delay step lies between any two consecutive
\* external calls and none follows the last student's call (one delay per
\* student but the last).
C22_DelayBetweenCalls ==
    /\ Len(ai_calls) = ai_i \/ pc = "ai_raised"
    /\ \A p, q \in Requests :
          p < q => \E r \in (p + 1)..(q - 1) : ai_log[r] = "sleep"
    /\ pc = "ai_done" => Cardinality(Sleeps) = Len(df) - 1

\* C23: a student's identifier is its row label, assigned when the table is
\* read and not recomputed; the frame process_batch_with_ai returns holds
\* exactly one row per input student, in order, with that student's label,
\* its own columns, and the annotation computed by that student's call, also
\* when two students have identical contents.
C23_AnnotationReassociated ==
    pc = "ai_done" =>
        /\ Len(result_df) = Len(df)
        /\ \A k \in 1..Len(result_df) :
              LET row == result_df[k]
                  answer == ai_calls[k].result.val
              IN  /\ row.index = df_index[k]
                  /\ row.student_id = df_index[k]
                  /\ \A c \in DOMAIN df[k] : row[c] = df[k][c]
                  /\ row.ai_risk_score =
                        IF "risk_score" \in DOMAIN answer
                        THEN answer.risk_score ELSE df[k].risk_score
                  /\ row.ai_risk_level =
                        IF "risk_level" \in DOMAIN answer
                        THEN answer.risk_level ELSE df[k].risk_level
        /\ \A k, j \in 1..Len(result_df) :
              k # j => result_df[k].student_id # result_df[j].student_id

\* two students with identical contents, in a frame whose labels start at 1:
\* the first was annotated by the model, the second fell back
C23_Witness ==
    /\ pc = "ai_done"
    /\ Len(df) = 2
    /\ df[1] = df[2]
    /\ df_index = <<1, 2>>
    /\ ai_calls[1].outcome = Responds(<<DocFull>>)
    /\ ai_calls[2].outcome = ApiError
    /\ result_df[1].ai_risk_score = Num(85)
    /\ result_df[2].ai_risk_score = df[2].risk_score
    /\ result_df[2].ai_risk_score # Num(85)

\* largest number of absences in the processed batch
MaxAbsencesOf(d) == SeriesMax(Column(d, "absences"))

\* C24: after processing a non-empty batch every attendance_pct lies in
\* [0, 100]; when the largest number of absences is positive,
\* attendance_pct * max = (max - absences) * 100, so the record with the most
\* absences has 0 and a record without absences has 100; when the largest
\* number is 0 every record has 100 (and no value is undefined).
C24_AttendancePct ==
    pc = "processed" =>
        \A i \in Rows(df) :
            LET r == df[i]
                max == MaxAbsencesOf(df)
            IN  /\ ~IsNaN(r.attendance_pct)
                /\ InRange(r.attendance_pct)
                /\ RLt(Num(0), max) =>
                      /\ REq(RMul(r.attendance_pct, max),
                             RMul(RSub(max, r.absences), Num(100)))
                      /\ REq(r.absences, max) => REq(r.attendance_pct, Num(0))
                      /\ REq(r.absences, Num(0)) =>
                            REq(r.attendance_pct, Num(100))
                /\ REq(max, Num(0)) => REq(r.attendance_pct, Num(100))

\* the five test students: 0, 5, 10, 15 and 20 absences
C24_Witness ==
    /\ pc = "processed"
    /\ df_in = TestStudentData
    /\ df[1].attendance_pct = Num(100)
    /\ df[2].attendance_pct = Num(75)
    /\ df[4].attendance_pct = Num(25)
    /\ df[5].attendance_pct = Num(0)

\* the proxy stated for missing assignments, from a record's own fields
StatedMissing(r) ==
    IF RLt(Num(0), r.failures) \/ RLe(r.studytime, Num(1)) THEN 1 ELSE 0

\* C25: in a processed batch every record has missing_assignments = 1 exactly
\* when failures > 0 or studytime <= 1, else 0, and missing_assignments_risk
\* is that value times 100: 0 or 100, determined by the record's own fields
\* whatever the other records of the batch are.
C25_MissingAssignments ==
    pc = "processed" =>
        \A i \in Rows(df) :
            LET r == df[i]
            IN  /\ r.missing_assignments = StatedMissing(r)
                /\ r.missing_assignments_risk =
                      Num(r.missing_assignments * 100)
                /\ r.missing_assignments_risk \in { Num(0), Num(100) }

\* a batch of two students without failures: the one who studies little is
\* flagged, the other is not
C25_Witness ==
    /\ pc = "processed"
    /\ Len(df) = 2
    /\ df[1].failures = Num(0) /\ df[1].studytime = Num(1)
    /\ df[2].failures = Num(0) /\ df[2].studytime = Num(2)
    /\ df[1].missing_assignments_risk = Num(100)
    /\ df[2].missing_assignments_risk = Num(0)

\* C26: a run whose Sheets export raised still executes the alert step and
\* then the metadata step, and returns status success with google_sheets
\* None; a run with export_sheets False never calls the Sheets sink.
C26_SheetsFailureTolerated ==
    pc = "wf_done" =>
        /\ "sheets" \in wf_failed =>
              /\ \E i, j, k \in 1..Len(wf_steps) :
                    /\ i < j /\ j < k
                    /\ wf_steps[i] = "sheets"
                    /\ wf_steps[j] = "alert"
                    /\ wf_steps[k] = "metadata"
              /\ Len(wf_sinks.metadata) = 1
              /\ wf_sinks.sheets = <<>>
              /\ summary.status = "success"
              /\ summary.google_sheets = "None"
        /\ ~wf_args.export_sheets =>
              /\ "sheets" \notin StepsDone
              /\ wf_sinks.sheets = <<>>

\* the Sheets export raised in a run that had a student to alert about
C26_Witness ==
    /\ pc = "wf_done"
    /\ wf_args.export_sheets
    /\ wf_failed = {"sheets"}
    /\ summary.status = "success"
    /\ summary.google_sheets = "None"
    /\ summary.high_risk_count > 0
    /\ wf_sinks.alert # <<>>
    /\ Len(wf_sinks.metadata) = 1

\* one of the four inputs of the call made for row r is missing
HasMissingInput(r) ==
    \/ IsMissing(r.attendance_pct) \/ IsMissing(r.final_grade)
    \/ IsMissing(r.trend_recent)

\* C27: every call of analyze_student_with_ai with a missing input (None or
\* NaN) returns exactly {"error": "missing field"} and issues no request to
\* the external model.
C27_MissingInputMarked ==
    \A k \in 1..Len(ai_calls) :
        HasMissingInput(df[k]) =>
            /\ ai_calls[k].result = PyDict([error |-> "missing field"])
            /\ ~ai_calls[k].issued

\* C28: a Streamlit run with AI analysis that reached the AI step completes
\* it and goes on to the export; every student of the batch then has the four
\* annotation columns filled, and a student outside the sample carries its
\* own risk_score and risk_level with '[]' for reasons and interventions.
C28_StreamlitAIStepCompletes ==
    (pc = "st_done" /\ wf_args.use_ai /\ "ai" \in StepsDone) =>
        /\ "csv" \in StepsDone
        /\ Len(wf_df) = Len(wf_in)
        /\ \A i \in 1..Len(wf_df) :
              /\ \A k \in 1..Len(ai_columns) :
                    /\ ai_columns[k] \in DOMAIN wf_df[i]
                    /\ ~IsNa(wf_df[i][ai_columns[k]])
              /\ i > wf_args.sample_size =>
                    /\ wf_df[i].ai_risk_score = wf_df[i].risk_score
                    /\ wf_df[i].ai_risk_level = wf_df[i].risk_level
                    /\ wf_df[i].key_risk_reasons = "[]"
                    /\ wf_df[i].interventions = "[]"

MinAbsencesOf(d) == SeriesMin(Column(d, "absences"))

\* C30: in a processed batch whose absences are not all equal,
\* attendance_risk * (max - min) = 100 * (absences - min), with min and max
\* the smallest and largest number of absences of the batch: the record with
\* the fewest absences has 0, the record with the most has 100.
C30_AttendanceRiskDirect ==
    (pc = "processed" /\ ~REq(MaxAbsencesOf(df), MinAbsencesOf(df))) =>
        \A i \in Rows(df) :
            LET r == df[i]
                min == MinAbsencesOf(df)
                max == MaxAbsencesOf(df)
            IN  /\ REq(RMul(r.attendance_risk, RSub(max, min)),
                       RMul(Num(100), RSub(r.absences, min)))
                /\ REq(r.absences, min) => r.attendance_risk = Num(0)
                /\ REq(r.absences, max) => r.attendance_risk = Num(100)

\* three students with 1, 3 and 2 absences: nobody has none
C30_Witness ==
    /\ pc = "processed"
    /\ Len(df) = 3
    /\ df[1].absences = Num(1)
    /\ df[2].absences = Num(3)
    /\ df[3].absences = Num(2)
    /\ df[1].attendance_risk = Num(0)
    /\ df[2].attendance_risk = Num(100)
    /\ df[3].attendance_risk = Num(50)

=============================================================================
